---- MODULE Spec2Model ----
(***************************************************************************)
(* A model of video4_ik_fk_limb.py: the IK/FK limb rigging helpers         *)
(* (duplicate_joints, create_fk_controls, create_ik_control,               *)
(* create_pv_control, pole_vector_connection, bake_trs_offsetParentMatrix) *)
(* acting on a host scene graph.                                           *)
(*                                                                         *)
(* Numbers are exact rationals <<n, d>> (d > 0, lowest terms); the only    *)
(* rounded operation is the square root inside mag, which is rounded to    *)
(* the nearest multiple of 1/Prec.  A transform is a similarity            *)
(* [r, s, t]: r quarter turns about Z, uniform scale s, then translation t *)
(* (row-vector convention of the host: p * M = s * Rot(p, r) + t).         *)
(***************************************************************************)
EXTENDS Integers, Sequences, FiniteSets, TLC

(* ------------------------------ bounds -------------------------------- *)

\* resolution of the rounded square root: mag is a multiple of 1/Prec
Prec == 100

\* number of calls (operations) one behaviour performs
MaxCalls == 3

(* ------------------------- rational arithmetic ------------------------ *)

Abs(x) == IF x < 0 THEN -x ELSE x

RECURSIVE GCD(_, _)
GCD(a, b) == IF b = 0 THEN a ELSE GCD(b, a % b)

\* the rational n/d in lowest terms with a positive denominator
Q(n, d) ==
    LET g == GCD(Abs(n), Abs(d))
        sg == IF d < 0 THEN -1 ELSE 1
    IN  <<sg * (n \div g), sg * (d \div g)>>

QI(n) == <<n, 1>>

QAdd(a, b) ==
    LET l == (a[2] \div GCD(a[2], b[2])) * b[2]
    IN  Q(a[1] * (l \div a[2]) + b[1] * (l \div b[2]), l)

QNeg(a) == <<-a[1], a[2]>>

QSub(a, b) == QAdd(a, QNeg(b))

QMul(a, b) ==
    LET g1 == GCD(Abs(a[1]), b[2])
        g2 == GCD(Abs(b[1]), a[2])
    IN  Q((a[1] \div g1) * (b[1] \div g2), (a[2] \div g2) * (b[2] \div g1))

\* defined for b # 0 only; callers guard the zero divisor
QDiv(a, b) == QMul(a, Q(b[2], b[1]))

QLt(a, b) == QSub(a, b)[1] < 0

QLe(a, b) == QSub(a, b)[1] <= 0

\* floor of the square root of a natural number
RECURSIVE ISqrtBetween(_, _, _)
ISqrtBetween(x, lo, hi) ==
    IF lo = hi THEN lo
    ELSE LET m == (lo + hi + 1) \div 2
         IN  IF m * m <= x THEN ISqrtBetween(x, m, hi)
                           ELSE ISqrtBetween(x, lo, m - 1)

ISqrt(x) == ISqrtBetween(x, 0, 40000)

\* square root of a rational >= 0, rounded to the nearest multiple of 1/Prec
QSqrt(a) ==
    LET twice == ISqrt((4 * Prec * Prec * a[1]) \div a[2])
    IN  Q((twice + 1) \div 2, Prec)

(* ------------------------------ vectors ------------------------------- *)

Zero3 == <<QI(0), QI(0), QI(0)>>

V3(x, y, z) == <<QI(x), QI(y), QI(z)>>

add_vectors(vectorA, vectorB) ==
    [i \in 1..Len(vectorA) |-> QAdd(vectorA[i], vectorB[i])]

subtract_vectors(vectorA, vectorB) ==
    [i \in 1..Len(vectorA) |-> QSub(vectorA[i], vectorB[i])]

scale_vector(vector, scale_factor) ==
    [i \in 1..Len(vector) |-> QMul(vector[i], scale_factor)]

Dot(a, b) == QAdd(QAdd(QMul(a[1], b[1]), QMul(a[2], b[2])), QMul(a[3], b[3]))

Cross(a, b) ==
    << QSub(QMul(a[2], b[3]), QMul(a[3], b[2])),
       QSub(QMul(a[3], b[1]), QMul(a[1], b[3])),
       QSub(QMul(a[1], b[2]), QMul(a[2], b[1])) >>

\* mel.eval('mag <<x, y, z>>'): the Euclidean norm
Mag(v) == QSqrt(Dot(v, v))

(* ----------------------------- transforms ----------------------------- *)

\* v turned by k quarter turns about the Z axis
Rot(v, k) ==
    CASE k % 4 = 0 -> v
      [] k % 4 = 1 -> <<QNeg(v[2]), v[1], v[3]>>
      [] k % 4 = 2 -> <<QNeg(v[1]), QNeg(v[2]), v[3]>>
      [] k % 4 = 3 -> <<v[2], QNeg(v[1]), v[3]>>

Identity == [r |-> 0, s |-> QI(1), t |-> Zero3]

\* the multMatrix node: matrixSum = matrixIn[0] * matrixIn[1] (A, then B)
multMatrix(A, B) ==
    [r |-> (A.r + B.r) % 4,
     s |-> QMul(A.s, B.s),
     t |-> add_vectors(scale_vector(Rot(A.t, B.r), B.s), B.t)]

\* the worldInverseMatrix plug: the inverse of a (non-degenerate) matrix
Inverse(A) ==
    [r |-> (4 - A.r) % 4,
     s |-> QDiv(QI(1), A.s),
     t |-> scale_vector(Rot(scale_vector(A.t, QI(-1)), 4 - A.r), QDiv(QI(1), A.s))]

(* ------------------------------- names -------------------------------- *)

\* a name is a sequence of one-character strings; None is the empty name
None == <<>>

\* Python's  sub in name
Contains(sub, name) ==
    \E i \in 1..(Len(name) - Len(sub) + 1) : SubSeq(name, i, i + Len(sub) - 1) = sub

\* Python's  name.replace(search, replace)  for a non-empty search term
RECURSIVE str_replace(_, _, _)
str_replace(name, search, replace) ==
    IF Len(name) < Len(search) THEN name
    ELSE IF SubSeq(name, 1, Len(search)) = search
         THEN replace \o str_replace(SubSeq(name, Len(search) + 1, Len(name)), search, replace)
         ELSE <<name[1]>> \o str_replace(Tail(name), search, replace)

R_a_s == <<"R", "_", "a", "_", "s">>
R_b_s == <<"R", "_", "b", "_", "s">>
R_c_s == <<"R", "_", "c", "_", "s">>
L_a_s == <<"L", "_", "a", "_", "s">>
L_b_s == <<"L", "_", "b", "_", "s">>
L_c_s == <<"L", "_", "c", "_", "s">>
C_c_s == <<"C", "_", "c", "_", "s">>
C_L_s == <<"C", "_", "L", "_", "s">>
L_R_s == <<"L", "_", "R", "_", "s">>
grp == <<"g", "r", "p">>
loc == <<"l", "o", "c">>
top == <<"t", "o", "p">>
ikHandle1 == <<"i", "k", "H">>

C_ik_ctrl == <<"C", "_", "i", "k", "_", "c", "t", "r", "l">>
L_ik_ctrl == <<"L", "_", "i", "k", "_", "c", "t", "r", "l">>
R_ik_ctrl == <<"R", "_", "i", "k", "_", "c", "t", "r", "l">>
C_pv_ctrl == <<"C", "_", "p", "v", "_", "c", "t", "r", "l">>
L_pv_ctrl == <<"L", "_", "p", "v", "_", "c", "t", "r", "l">>
R_pv_ctrl == <<"R", "_", "p", "v", "_", "c", "t", "r", "l">>

(* ------------------------------ the scene ----------------------------- *)

VARIABLES
    scene,      \* DAG nodes: name -> [kind, parent, t, r, s, opm, roo, drv, born, by]
    ikHandles,  \* ik handle name -> the network wired into its poleVector
    fkChains,   \* the joint lists duplicate_joints has returned
    clock,      \* number of nodes created so far (creation stamps)
    calls,      \* number of operations performed
    last        \* the last operation: [op, args, ret, status, pre, obs]

vars == <<scene, ikHandles, fkChains, clock, calls, last>>

\* born and by record when and by which function the node was created
Node(kind, parent, t, r, s, roo, born, by) ==
    [kind |-> kind, parent |-> parent, t |-> t, r |-> r, s |-> s,
     opm |-> Identity, roo |-> roo, drv |-> None, born |-> born, by |-> by]

\* the host makes a requested node name unique by a numeric suffix
UniqueName(sc, name) ==
    IF name \notin DOMAIN sc THEN name
    ELSE LET k == CHOOSE k \in 1..(Cardinality(DOMAIN sc) + 1) :
                    /\ (name \o <<ToString(k)>>) \notin DOMAIN sc
                    /\ \A j \in 1..(k - 1) : (name \o <<ToString(j)>>) \in DOMAIN sc
         IN  name \o <<ToString(k)>>

\* the node whose translate/rotate/scale plugs give n's channel values:
\* the source of connect_trs when n is driven, n itself otherwise
ChannelSource(sc, n) == IF sc[n].drv # None THEN sc[n].drv ELSE n

\* xformMatrix: the matrix of the node's own translate/rotate/scale channels
xformMatrix(sc, n) ==
    LET c == sc[ChannelSource(sc, n)]
    IN  [r |-> c.r, s |-> c.s, t |-> c.t]

\* worldMatrix[0] = xformMatrix * offsetParentMatrix * parent's worldMatrix
RECURSIVE worldMatrix(_, _)
worldMatrix(sc, n) ==
    LET own == multMatrix(xformMatrix(sc, n), sc[n].opm)
    IN  IF sc[n].parent = None THEN own
        ELSE multMatrix(own, worldMatrix(sc, sc[n].parent))

worldInverseMatrix(sc, n) == Inverse(worldMatrix(sc, n))

\* cmds.xform(n, q=True, ws=True, rp=True): the world position of the pivot
WorldPos(sc, n) == worldMatrix(sc, n).t

\* cmds.xform(n, t=pos, ws=True) and matchTransform(pos=True): the translate
\* channels that put n's pivot at world position pos
SetWorldTranslation(sc, n, pos) ==
    LET above == IF sc[n].parent = None THEN sc[n].opm
                 ELSE multMatrix(sc[n].opm, worldMatrix(sc, sc[n].parent))
        inv == Inverse(above)
        local == add_vectors(scale_vector(Rot(pos, inv.r), inv.s), inv.t)
    IN  [sc EXCEPT ![n].t = local]

InitScene ==
    (grp   :> Node("transform", None, V3(1, 2, 0), 1, QI(2), "xyz", 0, "scene"))
 @@ (loc   :> [Node("transform", grp, V3(1, 1, 0), 1, QI(2), "xyz", 0, "scene")
                   EXCEPT !.opm = [r |-> 1, s |-> QI(1), t |-> V3(0, 3, 0)]])
 @@ (top   :> Node("transform", None, V3(2, 0, 1), 3, QI(1), "xyz", 0, "scene"))
 @@ (R_a_s :> Node("joint", None, V3(0, 0, 0), 0, QI(1), "xyz", 0, "scene"))
 @@ (R_b_s :> Node("joint", R_a_s, V3(0, 5, 0), 1, QI(1), "zxy", 0, "scene"))
 @@ (R_c_s :> Node("joint", R_b_s, V3(-5, -10, 0), 0, QI(1), "xyz", 0, "scene"))
 @@ (L_a_s :> Node("joint", grp, V3(1, 0, 0), 0, QI(1), "xyz", 0, "scene"))
 @@ (L_b_s :> Node("joint", L_a_s, V3(2, 1, 0), 1, QI(1), "yzx", 0, "scene"))
 @@ (L_c_s :> Node("joint", L_b_s, V3(3, 0, 1), 0, QI(1), "xyz", 0, "scene"))
 @@ (C_c_s :> Node("joint", None, V3(5, 1, 0), 0, QI(1), "xyz", 0, "scene"))
 @@ (C_L_s :> Node("joint", None, V3(5, 0, 0), 2, QI(1), "xyz", 0, "scene"))
 @@ (L_R_s :> Node("joint", None, V3(5, 0, 5), 0, QI(1), "xyz", 0, "scene"))

\* an ik handle whose poleVector plug has no incoming connection
NoNetwork == [wired |-> FALSE, startIn |-> None, pvIn |-> None,
              minusOp |-> 1, plusOp |-> 1]

NoCall == [op |-> "none", args |-> <<>>, ret |-> None, status |-> "ok",
           pre |-> InitScene, obs |-> <<>>]

Init ==
    /\ scene = InitScene
    /\ ikHandles = (ikHandle1 :> NoNetwork)
    /\ fkChains = {}
    /\ clock = 0
    /\ calls = 0
    /\ last = NoCall

(* ------------------------ pole-vector geometry ------------------------ *)

\* the literal 5 of create_pv_control: the minimum bend length
MinDistance == 5

\* start + 0.5 * (end - start)
half_way(start_pos, end_pos) ==
    add_vectors(scale_vector(subtract_vectors(end_pos, start_pos), Q(1, 2)), start_pos)

\* mid - half_way: the bend vector
bend_vector(start_pos, mid_pos, end_pos) ==
    subtract_vectors(mid_pos, half_way(start_pos, end_pos))

\* a variant that leaves a zero-length bend vector alone
needs_rescale_skip_zero(length) == QLt(length, QI(MinDistance)) /\ length[1] # 0

\* the test  length < 5
needs_rescale(length) == QLt(length, QI(MinDistance))

\* Python's  5/length  raises ZeroDivisionError for length 0.0
division_fails(length) == length[1] = 0

\* a variant with the multiplier inverted (length/5)
placed_direction_inverted(subtract_half_way, length) ==
    IF needs_rescale(length)
    THEN scale_vector(subtract_half_way, QDiv(length, QI(MinDistance)))
    ELSE subtract_half_way

\* the vector added to mid_pos: the bend vector, rescaled when short
placed_direction(subtract_half_way, length) ==
    IF needs_rescale(length)
    THEN scale_vector(subtract_half_way, QDiv(QI(MinDistance), length))
    ELSE subtract_half_way

\* a variant that adds the direction to half_way instead of mid_pos
pole_vector_pos_from_half_way(start_pos, mid_pos, end_pos) ==
    LET subtract_half_way == bend_vector(start_pos, mid_pos, end_pos)
        length == Mag(subtract_half_way)
    IN  IF needs_rescale(length) /\ division_fails(length)
        THEN [status |-> "ZeroDivisionError", pos |-> None]
        ELSE [status |-> "ok",
              pos |-> add_vectors(placed_direction(subtract_half_way, length),
                                  half_way(start_pos, end_pos))]

\* lines 156-169: the outcome of the position computation
pole_vector_pos(start_pos, mid_pos, end_pos) ==
    LET subtract_half_way == bend_vector(start_pos, mid_pos, end_pos)
        length == Mag(subtract_half_way)
    IN  IF needs_rescale(length) /\ division_fails(length)
        THEN [status |-> "ZeroDivisionError", pos |-> None]
        ELSE [status |-> "ok",
              pos |-> add_vectors(placed_direction(subtract_half_way, length), mid_pos)]

(* --------------------- bake_trs_offsetParentMatrix -------------------- *)

\* a variant with the two matrices multiplied in the other order
bake_offset_swapped(sc, temp, parent) ==
    IF parent # None
    THEN multMatrix(worldInverseMatrix(sc, parent), worldMatrix(sc, temp))
    ELSE worldMatrix(sc, temp)

\* the offset written into offsetParentMatrix: temp's worldMatrix, times the
\* parent's worldInverseMatrix when there is a parent
bake_offset(sc, temp, parent) ==
    IF parent # None
    THEN multMatrix(worldMatrix(sc, temp), worldInverseMatrix(sc, parent))
    ELSE worldMatrix(sc, temp)

\* setAttr of translate/rotate to 0.0 and scale to 1.0
zero_trs(sc, transform) ==
    [sc EXCEPT ![transform].t = Zero3, ![transform].r = 0, ![transform].s = QI(1)]

bake_trs_offsetParentMatrix(sc, transform) ==
    LET temp == UniqueName(sc, transform)
        withTemp == sc @@ (temp :> sc[transform])
        parent == withTemp[transform].parent
        zeroed == zero_trs(withTemp, transform)
        placed == [zeroed EXCEPT ![transform].opm = bake_offset(zeroed, temp, parent)]
    IN  [n \in DOMAIN placed \ {temp} |-> placed[n]]

(* ------------------------- control creation --------------------------- *)

\* cmds.curve(..., n=name): a new parentless transform with identity channels
create_curve(sc, name, stamp, by) ==
    sc @@ (UniqueName(sc, name) :> Node("curve", None, Zero3, 0, QI(1), "xyz", stamp, by))

\* "generate name based off end joint side"
side_name(end_joint, center, left, right) ==
    IF Contains(<<"R", "_">>, end_joint) THEN right
    ELSE IF Contains(<<"L", "_">>, end_joint) THEN left
    ELSE center

Call(op, args, ret, status, obs) ==
    [op |-> op, args |-> args, ret |-> ret, status |-> status,
     pre |-> scene, obs |-> obs]

create_ik_control(end_joint) ==
    LET ik_control == side_name(end_joint, C_ik_ctrl, L_ik_ctrl, R_ik_ctrl)
        created == create_curve(scene, ik_control, clock + 1, "create_ik_control")
        matched == SetWorldTranslation(created, ik_control, WorldPos(created, end_joint))
    IN  /\ calls < MaxCalls
        /\ end_joint \in DOMAIN scene
        /\ scene' = bake_trs_offsetParentMatrix(matched, ik_control)
        /\ clock' = clock + 1
        /\ calls' = calls + 1
        /\ last' = Call("create_ik_control", <<end_joint>>, ik_control, "ok",
                        [new |-> UniqueName(scene, ik_control)])
        /\ UNCHANGED <<ikHandles, fkChains>>

create_pv_control(start_joint, mid_joint, end_joint) ==
    LET pv_control == side_name(end_joint, C_pv_ctrl, L_pv_ctrl, R_pv_ctrl)
        created == create_curve(scene, pv_control, clock + 1, "create_pv_control")
        start_pos == WorldPos(created, start_joint)
        mid_pos == WorldPos(created, mid_joint)
        end_pos == WorldPos(created, end_joint)
        pv == pole_vector_pos(start_pos, mid_pos, end_pos)
        obs == [new |-> UniqueName(scene, pv_control), start_pos |-> start_pos,
                mid_pos |-> mid_pos, end_pos |-> end_pos,
                pole_vector_pos |-> pv.pos]
    IN  /\ calls < MaxCalls
        /\ {start_joint, mid_joint, end_joint} \subseteq DOMAIN scene
        /\ clock' = clock + 1
        /\ calls' = calls + 1
        /\ IF pv.status = "ok"
           THEN /\ scene' = bake_trs_offsetParentMatrix(
                                SetWorldTranslation(created, pv_control, pv.pos), pv_control)
                /\ last' = Call("create_pv_control", <<start_joint, mid_joint, end_joint>>,
                                pv_control, "ok", obs)
           ELSE /\ scene' = created
                /\ last' = Call("create_pv_control", <<start_joint, mid_joint, end_joint>>,
                                None, pv.status, obs)
        /\ UNCHANGED <<ikHandles, fkChains>>

\* a direct call of bake_trs_offsetParentMatrix on a transform of the scene
bake(transform) ==
    /\ calls < MaxCalls
    /\ transform \in DOMAIN scene
    /\ scene[transform].kind # "joint"
    /\ scene' = bake_trs_offsetParentMatrix(scene, transform)
    /\ calls' = calls + 1
    /\ last' = Call("bake_trs_offsetParentMatrix", <<transform>>, None, "ok", <<>>)
    /\ UNCHANGED <<ikHandles, fkChains, clock>>

(* ----------------------- pole_vector_connection ----------------------- *)

\* decomposeMatrix.outputTranslate
outputTranslate(inputMatrix) == inputMatrix.t

\* plusMinusAverage.output3D for two inputs: operation 1 sums, 2 subtracts
plusMinusAverage(operation, input0, input1) ==
    IF operation = 2 THEN subtract_vectors(input0, input1)
    ELSE add_vectors(input0, input1)

\* a variant that leaves the first plusMinusAverage at its default operation (sum)
pv_network_sum(start_joint, pv_control) ==
    [wired |-> TRUE, startIn |-> start_joint, pvIn |-> pv_control,
     minusOp |-> 1, plusOp |-> 1]

\* the nodes and connections pole_vector_connection creates
pv_network(start_joint, pv_control) ==
    [wired |-> TRUE, startIn |-> start_joint, pvIn |-> pv_control,
     minusOp |-> 2, plusOp |-> 1]

\* the value arriving at ik_handle.poleVector: the network evaluated on sc
poleVector(sc, net) ==
    LET start_decompose == outputTranslate(worldMatrix(sc, net.startIn))
        pv_decompose == outputTranslate(worldMatrix(sc, net.pvIn))
        minus_node == plusMinusAverage(net.minusOp, pv_decompose, start_decompose)
    IN  plusMinusAverage(net.plusOp, start_decompose, minus_node)

pole_vector_connection(start_joint, pv_control, ik_handle) ==
    /\ calls < MaxCalls
    /\ {start_joint, pv_control} \subseteq DOMAIN scene
    /\ ik_handle \in DOMAIN ikHandles
    /\ calls' = calls + 1
    /\ IF ikHandles[ik_handle].wired
       THEN \* connectAttr refuses a plug that already has an incoming connection
            /\ ikHandles' = ikHandles
            /\ last' = Call("pole_vector_connection",
                            <<start_joint, pv_control, ik_handle>>, None, "RuntimeError", <<>>)
       ELSE /\ ikHandles' = [ikHandles EXCEPT ![ik_handle] = pv_network(start_joint, pv_control)]
            /\ last' = Call("pole_vector_connection",
                            <<start_joint, pv_control, ik_handle>>, None, "ok", <<>>)
    /\ UNCHANGED <<scene, fkChains, clock>>

\* the user moves a node: its translate channels are set
move(node, value) ==
    /\ calls < MaxCalls
    /\ node \in DOMAIN scene
    /\ scene[node].drv = None
    /\ scene[node].t # value
    /\ scene' = [scene EXCEPT ![node].t = value]
    /\ calls' = calls + 1
    /\ last' = Call("move", <<node>>, None, "ok", <<>>)
    /\ UNCHANGED <<ikHandles, fkChains, clock>>

(* --------------------------- duplicate_joints ------------------------- *)

\* a variant that leaves the child where it is in the hierarchy
cmds_parent_skipped(sc, child, parent) == sc

\* cmds.parent(child, parent): reparent, keeping the child's world matrix
cmds_parent(sc, child, parent) ==
    LET above == multMatrix(sc[child].opm, worldMatrix(sc, parent))
        local == multMatrix(worldMatrix(sc, child), Inverse(above))
    IN  [sc EXCEPT ![child].parent = parent,
                   ![child].t = local.t, ![child].r = local.r, ![child].s = local.s]

\* first loop: create joint i, copy the rotate order, parent it under joint i-1
RECURSIVE dup_create(_, _, _, _, _, _, _)
dup_create(sc, skin_joints, search, replace, i, new_joints, stamp) ==
    IF i > Len(skin_joints) THEN [sc |-> sc, new_joints |-> new_joints]
    ELSE LET new_joint == UniqueName(sc, str_replace(skin_joints[i], search, replace))
             made == sc @@ (new_joint :>
                        Node("joint", None, Zero3, 0, QI(1), sc[skin_joints[i]].roo, stamp + i,
                             "duplicate_joints"))
             parented == IF i > 1 THEN cmds_parent(made, new_joint, new_joints[i - 1])
                         ELSE made
         IN  dup_create(parented, skin_joints, search, replace, i + 1,
                        Append(new_joints, new_joint), stamp)

\* the matrix connected (then disconnected) into the new joint's offsetParentMatrix
dup_offset(sc, skin_joint) == xformMatrix(sc, skin_joint)

\* second loop: place joint i with the offsetParentMatrix
RECURSIVE dup_place(_, _, _, _)
dup_place(sc, skin_joints, new_joints, i) ==
    IF i > Len(skin_joints) THEN sc
    ELSE dup_place([sc EXCEPT ![new_joints[i]].opm = dup_offset(sc, skin_joints[i])],
                   skin_joints, new_joints, i + 1)

duplicate_joints(skin_joints, search, replace) ==
    LET created == dup_create(scene, skin_joints, search, replace, 1, <<>>, clock)
    IN  /\ calls < MaxCalls
        /\ \A i \in 1..Len(skin_joints) : skin_joints[i] \in DOMAIN scene
        /\ scene' = dup_place(created.sc, skin_joints, created.new_joints, 1)
        /\ fkChains' = fkChains \cup {created.new_joints}
        /\ clock' = clock + Len(skin_joints)
        /\ calls' = calls + 1
        /\ last' = Call("duplicate_joints", <<skin_joints, search, replace>>,
                        created.new_joints, "ok", <<>>)
        /\ UNCHANGED ikHandles

(* -------------------------- create_fk_controls ------------------------ *)

\* first loop: create control i and parent it under control i-1
RECURSIVE fk_create(_, _, _, _, _, _, _)
fk_create(sc, fk_joints, search, replace, i, controls, stamp) ==
    IF i > Len(fk_joints) THEN [sc |-> sc, controls |-> controls]
    ELSE LET made == create_curve(sc, str_replace(fk_joints[i], search, replace), stamp + i,
                                  "create_fk_controls")
             control == UniqueName(sc, str_replace(fk_joints[i], search, replace))
             parented == IF i > 1 THEN cmds_parent(made, control, controls[i - 1])
                         ELSE made
         IN  fk_create(parented, fk_joints, search, replace, i + 1,
                       Append(controls, control), stamp)

\* a variant that uses the joint's worldMatrix for every control
fk_offset_world(sc, fk_joints, controls, i) == worldMatrix(sc, fk_joints[i])

\* the matrix connected (then disconnected) into control i's offsetParentMatrix
fk_offset(sc, fk_joints, controls, i) ==
    IF i > 1
    THEN multMatrix(worldMatrix(sc, fk_joints[i]), worldInverseMatrix(sc, controls[i - 1]))
    ELSE worldMatrix(sc, fk_joints[i])

\* second loop: place the controls, root first
RECURSIVE fk_place(_, _, _, _)
fk_place(sc, fk_joints, controls, i) ==
    IF i > Len(fk_joints) THEN sc
    ELSE fk_place([sc EXCEPT ![controls[i]].opm = fk_offset(sc, fk_joints, controls, i)],
                  fk_joints, controls, i + 1)

\* connectAttr of the nine channels; a destination already connected keeps its
\* connection (the except branch prints and goes on)
connect_trs(sc, source, destination) ==
    IF sc[destination].drv = None
    THEN [sc EXCEPT ![destination].drv = source]
    ELSE sc

\* third loop: drive the fk joints
RECURSIVE fk_drive(_, _, _, _)
fk_drive(sc, fk_joints, controls, i) ==
    IF i > Len(controls) THEN sc
    ELSE fk_drive(connect_trs(sc, controls[i], fk_joints[i]), fk_joints, controls, i + 1)

create_fk_controls(fk_joints, search, replace) ==
    LET created == fk_create(scene, fk_joints, search, replace, 1, <<>>, clock)
        placed == fk_place(created.sc, fk_joints, created.controls, 1)
    IN  /\ calls < MaxCalls
        /\ \A i \in 1..Len(fk_joints) : fk_joints[i] \in DOMAIN scene
        /\ scene' = fk_drive(placed, fk_joints, created.controls, 1)
        /\ clock' = clock + Len(fk_joints)
        /\ calls' = calls + 1
        /\ last' = Call("create_fk_controls", <<fk_joints, search, replace>>,
                        created.controls, "ok", <<>>)
        /\ UNCHANGED <<ikHandles, fkChains>>

(* --------------------------- specifications --------------------------- *)

\* the (start, mid, end) joints create_pv_control is called with
PvTriples ==
    { <<R_a_s, R_b_s, R_c_s>>, <<R_a_s, C_c_s, R_c_s>>, <<R_a_s, C_L_s, R_c_s>>,
      <<R_a_s, C_c_s, C_L_s>>, <<R_a_s, L_R_s, R_c_s>>, <<L_a_s, L_b_s, L_c_s>> }

\* the end joints create_ik_control is called with
IkEnds == {R_c_s, L_c_s, C_c_s, C_L_s, L_R_s}

StartJoints == {R_a_s, L_a_s}

Curves == {n \in DOMAIN scene : scene[n].kind = "curve"}

MoveValues == {V3(1, 0, 2)}

\* the arguments duplicate_joints is called with
DupArgs ==
    { <<<<R_a_s, R_b_s, R_c_s>>, <<"s">>, <<"f">>>>,
      <<<<L_a_s, L_b_s, L_c_s>>, <<"s">>, <<"f">>>>,
      <<<<R_a_s, R_c_s>>, <<"s">>, <<"f">>>>,
      <<<<R_a_s, R_b_s>>, <<"x">>, <<"f">>>>,
      <<<<R_b_s, R_c_s>>, <<"b">>, <<"c">>>>,
      <<<<C_c_s>>, <<"_", "s">>, <<"_", "f">>>> }

PvStep == \E t \in PvTriples : create_pv_control(t[1], t[2], t[3])

IkStep == \E e \in IkEnds : create_ik_control(e)

BakeStep == \E n \in {loc, top} : bake(n)

ConnectStep ==
    \E s \in StartJoints, p \in Curves, h \in DOMAIN ikHandles :
        pole_vector_connection(s, p, h)

MoveStep == \E n \in StartJoints \cup Curves, v \in MoveValues : move(n, v)

DupStep == \E a \in DupArgs : duplicate_joints(a[1], a[2], a[3])

FkStep == \E c \in fkChains : create_fk_controls(c, <<"f">>, <<"k">>)

RigIkStep == \E e \in {R_c_s, L_R_s} : create_ik_control(e)

RigPvStep == create_pv_control(R_a_s, R_b_s, R_c_s)

\* placing controls, baking, wiring and moving
Next == PvStep \/ IkStep \/ BakeStep \/ ConnectStep \/ MoveStep

Spec == Init /\ [][Next]_vars

\* building the joint chains and their controls
NextRig == DupStep \/ FkStep \/ RigIkStep \/ RigPvStep

SpecRig == Init /\ [][NextRig]_vars

(* ------------------------- pole-vector position ----------------------- *)

PvCalled == last.op = "create_pv_control"

PvPlaced == PvCalled /\ last.status = "ok"

\* the straight-line midpoint of start and end
Midpoint(start, end) ==
    add_vectors(start, scale_vector(subtract_vectors(end, start), Q(1, 2)))

\* mid minus the straight-line midpoint, for the positions the call read
Bend == subtract_vectors(last.obs.mid_pos, Midpoint(last.obs.start_pos, last.obs.end_pos))

BendShort == QLt(Dot(Bend, Bend), QI(MinDistance * MinDistance))

\* the bend vector as the claim uses it: rescaled to length 5 only when shorter
Direction ==
    IF BendShort THEN scale_vector(Bend, QDiv(QI(MinDistance), Mag(Bend))) ELSE Bend

\* C1 as stated: for a non-zero bend vector the pole-vector position is
\* midpoint + direction, so for a bend of length >= 5 it is the mid joint position.
C1_MidpointPlusDirection ==
    PvPlaced =>
        /\ last.obs.pole_vector_pos =
               add_vectors(Midpoint(last.obs.start_pos, last.obs.end_pos), Direction)
        /\ ~BendShort => last.obs.pole_vector_pos = last.obs.mid_pos

\* C1 amended: for a non-zero bend vector the pole-vector position is
\* mid + direction: the mid joint position pushed out by the bend vector itself
\* when its length is >= 5 (so position - mid = mid - midpoint), and by a vector
\* of length 5 along the bend vector when it is shorter; the control is put there.
C1_MidPlusDirection ==
    PvPlaced =>
        LET out == subtract_vectors(last.obs.pole_vector_pos, last.obs.mid_pos)
        IN  /\ ~BendShort => out = Bend
            /\ BendShort =>
                   /\ Cross(out, Bend) = Zero3
                   /\ QLt(QI(0), Dot(out, Bend))
                   /\ QLe(Q(49, 2), Dot(out, out)) /\ QLe(Dot(out, out), Q(51, 2))
            /\ WorldPos(scene, last.ret) = last.obs.pole_vector_pos

\* the spec's example call: start (0,0,0), mid (0,5,0), end (10,0,0)
C1_Witness ==
    /\ PvPlaced
    /\ last.obs.start_pos = V3(0, 0, 0)
    /\ last.obs.mid_pos = V3(0, 5, 0)
    /\ last.obs.end_pos = V3(10, 0, 0)
    /\ last.obs.pole_vector_pos = V3(-5, 10, 0)

\* C2: for a bend vector of length d with 0 < d < 5 the position lies at
\* distance >= 5 from the straight-line midpoint, and the vector used is the
\* bend vector times 5/d.
C2_MinimumDistance ==
    (PvPlaced /\ BendShort) =>
        LET out == subtract_vectors(last.obs.pole_vector_pos, last.obs.mid_pos)
            off == subtract_vectors(last.obs.pole_vector_pos,
                                    Midpoint(last.obs.start_pos, last.obs.end_pos))
        IN  /\ QLe(QI(MinDistance * MinDistance), Dot(off, off))
            /\ scale_vector(out, Mag(Bend)) = scale_vector(Bend, QI(MinDistance))

\* a short bend vector of irrational length was rescaled
C2_Witness ==
    /\ PvPlaced /\ BendShort
    /\ Dot(Bend, Bend) = Q(29, 4)
    /\ last.obs.pole_vector_pos # add_vectors(Bend, last.obs.mid_pos)

\* C3: with a bend vector of length 0 the call fails with an error and yields
\* no position: nothing is returned and the control is not placed.
C3_DegenerateFails ==
    (PvCalled /\ Bend = Zero3) =>
        /\ last.status = "ZeroDivisionError"
        /\ last.ret = None
        /\ last.obs.pole_vector_pos = None
        /\ xformMatrix(scene, last.obs.new) = Identity
        /\ scene[last.obs.new].opm = Identity

C3_Witness == PvCalled /\ Bend = Zero3 /\ last.status # "ok"

(* ------------------------------ the bake ------------------------------ *)

BakeCalled == last.op = "bake_trs_offsetParentMatrix"

\* C4: after the bake the transform's channels are identity, its offset is its
\* former world pose T times the inverse of the parent's world pose P (T itself
\* without a parent), offset times P is T, and the world pose is still T.
C4_BakeRoundTrip ==
    BakeCalled =>
        LET n == last.args[1]
            T == worldMatrix(last.pre, n)
            parent == last.pre[n].parent
            P == IF parent = None THEN Identity ELSE worldMatrix(scene, parent)
        IN  /\ xformMatrix(scene, n) = Identity
            /\ scene[n].opm = multMatrix(T, Inverse(P))
            /\ multMatrix(scene[n].opm, P) = T
            /\ worldMatrix(scene, n) = T
            /\ scene[n].parent = parent
            /\ DOMAIN scene = DOMAIN last.pre

\* a parented transform with non-identity channels was baked
C4_Witness ==
    /\ BakeCalled
    /\ last.pre[last.args[1]].parent # None
    /\ xformMatrix(last.pre, last.args[1]) # Identity
    /\ worldMatrix(scene, last.pre[last.args[1]].parent) # Identity

(* ------------------------- chains and controls ------------------------ *)

DupCalled == last.op = "duplicate_joints"

FkCalled == last.op = "create_fk_controls"

\* C5 as stated: every duplicate's offset is its source joint's world transform
\* relative to the new parent, so every duplicate's world transform equals its
\* source joint's, whatever the source hierarchy.
C5_DuplicatesMatchSource ==
    DupCalled =>
        LET skin == last.args[1]
            new == last.ret
        IN  \A i \in 1..Len(skin) :
                /\ scene[new[i]].opm =
                       multMatrix(worldMatrix(scene, skin[i]),
                                  IF i = 1 THEN Identity
                                  ELSE Inverse(worldMatrix(scene, new[i - 1])))
                /\ worldMatrix(scene, new[i]) = worldMatrix(scene, skin[i])

\* C6: control i is parented under control i-1, its channels are identity, its
\* offset is the joint's world transform (times the inverse of the previous
\* control's world transform for i > 0) and its world transform is joint i's.
C6_FkControlsMatchJoints ==
    FkCalled =>
        LET fk == last.args[1]
            c == last.ret
        IN  /\ Len(c) = Len(fk)
            /\ \A i \in 1..Len(fk) :
                   /\ scene[c[i]].parent = (IF i > 1 THEN c[i - 1] ELSE None)
                   /\ xformMatrix(scene, c[i]) = Identity
                   /\ scene[c[i]].opm =
                          (IF i > 1 THEN multMatrix(worldMatrix(scene, fk[i]),
                                                    Inverse(worldMatrix(scene, c[i - 1])))
                           ELSE worldMatrix(scene, fk[i]))
                   /\ worldMatrix(scene, c[i]) = worldMatrix(scene, fk[i])
                   /\ worldMatrix(scene, fk[i]) = worldMatrix(last.pre, fk[i])

\* controls were made for a three-joint chain away from the origin
C6_Witness ==
    /\ FkCalled
    /\ Len(last.ret) = 3
    /\ worldMatrix(scene, last.ret[1]) # Identity
    /\ worldMatrix(scene, last.ret[2]) # worldMatrix(scene, last.ret[1])

IsPrefix(p, name) == Len(p) <= Len(name) /\ SubSeq(name, 1, Len(p)) = p

\* duplicate_joints returns one new joint per source joint, in order, each
\* created after and parented under the one before it
DupOrdered ==
    DupCalled =>
        LET skin == last.args[1]
            new == last.ret
        IN  /\ Len(new) = Len(skin)
            /\ \A i \in 1..Len(skin) :
                   /\ new[i] \notin DOMAIN last.pre
                   /\ scene[new[i]].by = "duplicate_joints"
                   /\ scene[new[i]].roo = scene[skin[i]].roo
                   /\ IsPrefix(str_replace(skin[i], last.args[2], last.args[3]), new[i])
                   /\ scene[new[i]].parent = (IF i > 1 THEN new[i - 1] ELSE None)
                   /\ i > 1 => scene[new[i - 1]].born < scene[new[i]].born

\* create_fk_controls makes one control per duplicate joint that already
\* exists, in order, each created after and parented under the one before it
FkOrdered ==
    FkCalled =>
        LET fk == last.args[1]
            c == last.ret
        IN  /\ Len(c) = Len(fk)
            /\ \A i \in 1..Len(fk) :
                   /\ fk[i] \in DOMAIN last.pre
                   /\ scene[fk[i]].by = "duplicate_joints"
                   /\ c[i] \notin DOMAIN last.pre
                   /\ scene[c[i]].by = "create_fk_controls"
                   /\ scene[fk[i]].born < scene[c[i]].born
                   /\ scene[c[i]].parent = (IF i > 1 THEN c[i - 1] ELSE None)
                   /\ i > 1 => scene[c[i - 1]].born < scene[c[i]].born

\* every IK or pole-vector control was created after every FK control
IkPvAfterFk ==
    \A a, b \in DOMAIN scene :
        (/\ scene[a].by = "create_fk_controls"
         /\ scene[b].by \in {"create_ik_control", "create_pv_control"})
            => scene[a].born < scene[b].born

SideTag(name) ==
    IF IsPrefix(<<"L", "_">>, name) THEN "Left"
    ELSE IF IsPrefix(<<"R", "_">>, name) THEN "Right"
    ELSE "Center"

\* C8 as stated: the IK and pole-vector controls are named by the end joint's
\* side tag, whatever else the joint name contains.
C8_NamedBySideTag ==
    /\ last.op = "create_ik_control" =>
           last.ret = (CASE SideTag(last.args[1]) = "Left" -> L_ik_ctrl
                         [] SideTag(last.args[1]) = "Right" -> R_ik_ctrl
                         [] OTHER -> C_ik_ctrl)
    /\ PvPlaced =>
           last.ret = (CASE SideTag(last.args[3]) = "Left" -> L_pv_ctrl
                         [] SideTag(last.args[3]) = "Right" -> R_pv_ctrl
                         [] OTHER -> C_pv_ctrl)

\* two joints of the list get the same target name, or a target name is taken
NameCollision ==
    LET skin == last.args[1]
        target(i) == str_replace(skin[i], last.args[2], last.args[3])
    IN  \/ \E i, j \in 1..Len(skin) : i # j /\ target(i) = target(j)
        \/ \E i \in 1..Len(skin) : target(i) \in DOMAIN last.pre

\* C9 as stated: on a name collision duplicate_joints fails, creates no joint
\* and returns no list.
C9_CollisionFails ==
    (DupCalled /\ NameCollision) =>
        /\ last.status # "ok"
        /\ last.ret = None
        /\ scene = last.pre

(* ---------------------------- pole vector ----------------------------- *)

\* C10: the value arriving at the ik handle's poleVector is
\* start + (pv - start) of the world translations, which is the pole-vector
\* control's world translation, in every state after the wiring.
C10_PoleVectorTracksControl ==
    \A h \in DOMAIN ikHandles :
        ikHandles[h].wired =>
            LET start == WorldPos(scene, ikHandles[h].startIn)
                pv == WorldPos(scene, ikHandles[h].pvIn)
            IN  /\ poleVector(scene, ikHandles[h]) =
                       add_vectors(start, subtract_vectors(pv, start))
                /\ poleVector(scene, ikHandles[h]) = pv

\* a wired node has moved, with the start joint away from the origin
C10_Witness ==
    \E h \in DOMAIN ikHandles :
        /\ ikHandles[h].wired
        /\ last.op = "move"
        /\ last.args[1] \in {ikHandles[h].startIn, ikHandles[h].pvIn}
        /\ WorldPos(scene, ikHandles[h].startIn) # Zero3
        /\ WorldPos(scene, ikHandles[h].pvIn) # WorldPos(last.pre, ikHandles[h].pvIn)

(* ------------------------ failed and repeated calls ------------------- *)

\* C11 as stated: when the pole-vector computation fails on a bend vector of
\* length 0, the scene after the call is the scene before it: no control curve
\* created by the call remains.
C11_NoPartialMutation ==
    (PvCalled /\ last.status # "ok") =>
        /\ scene = last.pre
        /\ last.obs.new \notin DOMAIN scene

ControlCalled ==
    /\ last.op \in {"create_ik_control", "create_pv_control"}
    /\ last.status = "ok"

\* the world position the call computed for its control
ControlTarget ==
    IF last.op = "create_ik_control" THEN WorldPos(last.pre, last.args[1])
    ELSE last.obs.pole_vector_pos

\* C12 as stated: each create_ik_control / create_pv_control call places, bakes
\* and returns the curve it created, also when the requested name was taken,
\* and leaves the controls of earlier calls as they were.
C12_CallsIndependent ==
    ControlCalled =>
        /\ last.ret = last.obs.new
        /\ last.obs.new \notin DOMAIN last.pre
        /\ xformMatrix(scene, last.obs.new) = Identity
        /\ WorldPos(scene, last.obs.new) = ControlTarget
        /\ \A n \in DOMAIN last.pre :
               last.pre[n].kind = "curve" => scene[n] = last.pre[n]

====
